---- MODULE Spec2Model ----
(***************************************************************************)
(* Copy-trade orchestrator (engine/copy_trader.rs), stream consumer        *)
(* (helius/ws.rs), intent inference (engine/intent.rs) and the execution   *)
(* pipeline (dex/jupiter.rs).                                              *)
(*                                                                         *)
(* Two runs of run_copy_trader are modelled side by side, orch[TRUE] and   *)
(* orch[FALSE]: they read the same environment, the same stream and the    *)
(* same external responses and differ only in MIRROR_BUYS_ONLY.            *)
(***************************************************************************)
EXTENDS Integers, Sequences, FiniteSets, TLC

\* ---------------------------------------------------------------- bounds
\* failed connect attempts are counted up to this number
MaxAttempts == 3
\* largest UI token amount of a balance entry, in units of half the dust threshold
MaxUi == 3
\* entries of a postTokenBalances array handed to one application of infer_intent_from_tx
MaxBalances == 3

\* ------------------------------------------------------------- constants
\* 0.0000001 UI units; one model unit is half of it
DustThreshold == 2
LAMPORTS_PER_SOL == 1000000000
MAX_SAFE_SOL == 1000
SLIPPAGE_BPS_DEFAULT == 500
SOL_MINT == "So11111111111111111111111111111111111111112"

\* ----------------------------------------------------------------- values
NoSig == "none"
Signatures == {"sigA", "sigB"}
SigOpt == Signatures \cup {NoSig}

ValidMints == {"MintA", "MintB", "MintC"}
BadMint == "not-a-pubkey"
Mints == ValidMints \cup {BadMint}

NoHash == "none"
Hashes == {"hashA", "hashB"}

\* An f64 amount of SOL: whole + half / (2 * LAMPORTS_PER_SOL), half in half-lamports.
Sol(w, h) == [whole |-> w, half |-> h]
\* A u64 amount of lamports: giga * LAMPORTS_PER_SOL + units.
Lamports(g, u) == [giga |-> g, units |-> u]

\* ------------------------------------------------------------ common/utils
\* env::var(key): the value of a variable, "missing" when it is not set
env_var(v) == IF v = "missing" THEN [ok |-> FALSE, val |-> v] ELSE [ok |-> TRUE, val |-> v]

\* env_f64(key, default): unset or unparsable gives the default
env_f64(v, default) == IF v.status = "number" THEN v.val ELSE default

\* env_bool(key, default)
env_bool(v, default) ==
  IF v \in {"true", "1", "yes", "y"} THEN TRUE
  ELSE IF v \in {"false", "0", "no", "n"} THEN FALSE
  ELSE default

\* Pubkey::from_str(value)
parse_pubkey(value) == value \in ValidMints \cup {"TargetKey", "WalletKey"}

\* PRIVATE_KEY: "Err" when unset or a bad JSON array, "Panic" on a bad base58 string
import_wallet(key) ==
  IF key = "missing" THEN "Err"
  ELSE IF key = "bad_json" THEN "Err"
  ELSE IF key = "bad_base58" THEN "Panic"
  ELSE "Ok"

\* build_state(): both RPC clients, then the wallet
build_state(e) ==
  IF ~env_var(e.RPC_ENDPOINT).ok THEN "Err" ELSE import_wallet(e.PRIVATE_KEY)

\* ----------------------------------------------------------- engine/intent
EmptyMap == << >>

MapGet(m, k, default) == IF k \in DOMAIN m THEN m[k] ELSE default

MapInsert(m, k, v) == [x \in DOMAIN m \cup {k} |-> IF x = k THEN v ELSE m[x]]

\* the loops over preTokenBalances / postTokenBalances: a later entry of a mint
\* replaces an earlier one, entries without mint or uiAmount are skipped
RECURSIVE BalanceMap(_, _)
BalanceMap(m, xs) ==
  IF xs = << >> THEN m
  ELSE LET x == Head(xs)
       IN BalanceMap(IF x.has_mint /\ x.has_ui THEN MapInsert(m, x.mint, x.ui) ELSE m,
                     Tail(xs))

NoBest == [some |-> FALSE, mint |-> "", delta |-> 0]

\* as FindBest, but the first candidate met is kept whatever the later deltas
RECURSIVE FindBest_KeepFirst(_, _, _, _)
FindBest_KeepFirst(order, pre_map, post_map, best) ==
  IF order = << >> THEN best
  ELSE LET mint == Head(order)
           post_v == post_map[mint]
           pre_v == MapGet(pre_map, mint, 0)
           delta == post_v - pre_v
           next == IF delta > 0 /\ ~(delta < DustThreshold)
                   THEN IF ~best.some THEN [some |-> TRUE, mint |-> mint, delta |-> delta]
                        ELSE best
                   ELSE best
       IN FindBest_KeepFirst(Tail(order), pre_map, post_map, next)

\* as FindBest, but without the dust check: every positive delta is a candidate
RECURSIVE FindBest_NoDust(_, _, _, _)
FindBest_NoDust(order, pre_map, post_map, best) ==
  IF order = << >> THEN best
  ELSE LET mint == Head(order)
           post_v == post_map[mint]
           pre_v == MapGet(pre_map, mint, 0)
           delta == post_v - pre_v
           next == IF delta > 0
                   THEN IF ~best.some THEN [some |-> TRUE, mint |-> mint, delta |-> delta]
                        ELSE IF delta > best.delta
                             THEN [some |-> TRUE, mint |-> mint, delta |-> delta]
                             ELSE best
                   ELSE best
       IN FindBest_NoDust(Tail(order), pre_map, post_map, next)

\* the loop over post_map in the iteration order `order`
RECURSIVE FindBest(_, _, _, _)
FindBest(order, pre_map, post_map, best) ==
  IF order = << >> THEN best
  ELSE LET mint == Head(order)
           post_v == post_map[mint]
           pre_v == MapGet(pre_map, mint, 0)
           delta == post_v - pre_v
           next == IF delta > 0 /\ ~(delta < DustThreshold)
                   THEN IF ~best.some THEN [some |-> TRUE, mint |-> mint, delta |-> delta]
                        ELSE IF delta > best.delta
                             THEN [some |-> TRUE, mint |-> mint, delta |-> delta]
                             ELSE best
                   ELSE best
       IN FindBest(Tail(order), pre_map, post_map, next)

IntentNone == [tag |-> "None"]
IntentErr == [tag |-> "Err"]
Buy(mint, sol) == [tag |-> "Buy", output_mint |-> mint, max_input_sol |-> sol]
Sell(mint) == [tag |-> "Sell", input_mint |-> mint]

\* every order in which a HashMap over the keys S may be iterated
Orders(S) == {s \in [1..Cardinality(S) -> S] : \A i, j \in DOMAIN s : s[i] = s[j] => i = j}

\* infer_intent_from_tx(json_msg, max_buy_sol), iterating post_map in `order`
infer_intent_from_tx(msg, max_buy_sol, order) ==
  IF msg.shape = "none" THEN IntentNone
  ELSE IF ~msg.has_meta THEN IntentNone
  ELSE LET pre_map == BalanceMap(EmptyMap, msg.pre)
           post_map == BalanceMap(EmptyMap, msg.post)
           best == FindBest(order, pre_map, post_map, NoBest)
       IN IF ~best.some THEN IntentNone
          ELSE IF ~parse_pubkey(best.mint) THEN IntentErr
          ELSE Buy(best.mint, max_buy_sol)

\* ------------------------------------------------------ engine/copy_trader
\* as sol_to_lamports, but the fraction of a lamport is cut off
sol_to_lamports_Truncating(sol) ==
  IF ~(sol.whole >= 0 /\ (sol.whole < MAX_SAFE_SOL \/ (sol.whole = MAX_SAFE_SOL /\ sol.half = 0)))
  THEN [ok |-> FALSE, lamports |-> Lamports(0, 0)]
  ELSE [ok |-> TRUE, lamports |-> Lamports(sol.whole, sol.half \div 2)]

\* sol_to_lamports(sol): the range check, then (sol * 1e9).round()
sol_to_lamports(sol) ==
  IF ~(sol.whole >= 0 /\ (sol.whole < MAX_SAFE_SOL \/ (sol.whole = MAX_SAFE_SOL /\ sol.half = 0)))
  THEN [ok |-> FALSE, lamports |-> Lamports(0, 0)]
  ELSE LET r == (sol.half + 1) \div 2
       IN [ok |-> TRUE,
           lamports |-> IF r = LAMPORTS_PER_SOL THEN Lamports(sol.whole + 1, 0)
                        ELSE Lamports(sol.whole, r)]

\* run_copy_trader up to the call of connect_forever: "Ok", "Err" or "Panic"
startup(e) ==
  LET st == build_state(e)
  IN IF st # "Ok" THEN st
     ELSE IF ~env_var(e.RPC_WEBSOCKET_ENDPOINT).ok THEN "Err"
     ELSE IF ~env_var(e.TARGET_PUBKEY).ok THEN "Err"
     ELSE IF ~parse_pubkey(e.TARGET_PUBKEY) THEN "Err"
     ELSE "Ok"

DEFAULT_MAX_BUY_SOL == Sol(0, 40000000)

\* ------------------------------------------------------------- dex/jupiter
NoMessage == [kind |-> "none", recent_blockhash |-> NoHash]

\* Transaction::sign(keypairs, recent_blockhash)
sign(message, signer, recent_blockhash) ==
  LET m == [message EXCEPT !.recent_blockhash = recent_blockhash]
  IN [message |-> m, signatures |-> <<[signer |-> signer, message |-> m]>>]

\* as ResignWithBlockhash, but only the legacy encoding gets the fetched blockhash
ResignLegacyOnly(message, wallet, latest) ==
  IF message.kind = "Legacy" THEN sign(message, wallet, latest)
  ELSE [message |-> message, signatures |-> <<[signer |-> wallet, message |-> message]>>]

\* sign_and_send_swap: the blockhash replaced in either encoding, then re-signed
ResignWithBlockhash(message, wallet, latest) ==
  LET msg == CASE message.kind = "Legacy" -> [message EXCEPT !.recent_blockhash = latest]
               [] message.kind = "V0" -> [message EXCEPT !.recent_blockhash = latest]
  IN sign(msg, wallet, latest)

\* ------------------------------------------------------------------- state
VARIABLES
  env,       \* the process environment
  orch,      \* orch[f]: the run of run_copy_trader with mirror_buys_only = f
  socket,    \* the websocket: "none", "open", "closed"
  attempts,  \* failed attempts of connect_forever, counted up to MaxAttempts
  feed,      \* what the stream has delivered: the signatures of the current and earlier
             \* events, and what the balances of the current event report
  probe      \* one application of a function to an input, outside a run

vars == <<env, orch, socket, attempts, feed, probe>>

MaxBuyEnv ==
  { [status |-> "unset", val |-> Sol(0, 0)],
    [status |-> "number", val |-> Sol(0, 100000000)],
    [status |-> "number", val |-> Sol(-1, 0)],
    [status |-> "number", val |-> Sol(1001, 0)] }

Envs ==
  [ RPC_ENDPOINT : {"missing", "set"},
    RPC_WEBSOCKET_ENDPOINT : {"missing", "bad_url", "valid"},
    PRIVATE_KEY : {"missing", "bad_json", "bad_base58", "valid"},
    TARGET_PUBKEY : {"missing", "bad", "TargetKey"},
    MAX_BUY_SOL : MaxBuyEnv ]

mirror_buys_only(f) == env_bool(IF f THEN "true" ELSE "false", TRUE)
max_buy_sol == env_f64(env.MAX_BUY_SOL, DEFAULT_MAX_BUY_SOL)

InitRun(f) ==
  [ flag |-> f, pc |-> "startup", result |-> "running", last_sig |-> NoSig,
    inferred |-> FALSE, skipped |-> FALSE, notice |-> FALSE, calls |-> << >>,
    swap_message |-> NoMessage, latest |-> NoHash,
    outcome |-> "none", had_failure |-> FALSE, sent |-> NoSig ]

\* a JSON value with neither /params/result nor /result
NoNotification ==
  [shape |-> "none", signature |-> NoSig, has_meta |-> FALSE, pre |-> << >>, post |-> << >>]

\* an application of `kind` to its input: pc is "input" before it, "once" after it and
\* "twice" after a second application to the same input
Probe(kind, msg, sol, intent) ==
  [ kind |-> kind, pc |-> "input", msg |-> msg, sol |-> sol, intent |-> intent,
    first |-> IntentNone, second |-> IntentNone,
    lamports |-> [ok |-> FALSE, lamports |-> Lamports(0, 0)],
    before |-> InitRun(TRUE), after |-> InitRun(TRUE) ]

NoProbe == Probe("idle", NoNotification, Sol(0, 0), IntentNone)

\* nothing delivered yet
InitFeed ==
  [ seen |-> {}, prev |-> NoSig, last_signed |-> NoSig, cur |-> NoSig,
    events |-> "none", selected |-> {}, delta |-> 0, malformed |-> FALSE ]

Init ==
  /\ env \in Envs
  /\ orch = [f \in BOOLEAN |-> InitRun(f)]
  /\ socket = "none"
  /\ attempts = 0
  /\ feed = InitFeed
  /\ probe = NoProbe

At(p) == {f \in BOOLEAN : orch[f].pc = p} # {}

\* ------------------------------------------------------------ the stream
\* an entry of preTokenBalances / postTokenBalances: the token account of `owner`
\* for one mint; Entry is an account of the target
Entry(m, u) == [has_mint |-> TRUE, mint |-> m, has_ui |-> TRUE, ui |-> u, owner |-> "TargetKey"]

\* a token account of another account the transaction mentions
OtherEntry(m, u) == [Entry(m, u) EXCEPT !.owner = "OtherKey"]

\* the balance arrays of the notifications the stream delivers
StreamPre == { << >>, <<Entry("MintA", 1)>>, <<[Entry("MintA", 0) EXCEPT !.has_ui = FALSE]>> }
StreamPost == { << >> } \cup { <<Entry(m, u)>> : m \in Mints, u \in {1, MaxUi} }

\* JSON values the stream yields: the notification at /params/result or /result, or neither
Events ==
  { [shape |-> "params", signature |-> s, has_meta |-> TRUE, pre |-> a, post |-> b] :
      s \in SigOpt, a \in StreamPre, b \in StreamPost }
  \cup { [shape |-> "params", signature |-> s, has_meta |-> FALSE, pre |-> << >>, post |-> << >>] :
      s \in SigOpt }
  \cup { [shape |-> "result", signature |-> NoSig, has_meta |-> TRUE, pre |-> a, post |-> b] :
      a \in StreamPre, b \in StreamPost }
  \cup { NoNotification }

\* msg.pointer("/params/result/signature").and_then(as_str)
Signature(msg) == IF msg.shape = "params" THEN msg.signature ELSE NoSig

\* the keys of post_map, which infer_intent_from_tx iterates
PostMints(msg) ==
  IF msg.shape = "none" \/ ~msg.has_meta THEN {} ELSE DOMAIN BalanceMap(EmptyMap, msg.post)

\* --------------------------------------------- what a notification reports
\* the notification and its meta object are present
Readable(msg) == msg.shape # "none" /\ msg.has_meta

\* the entries of a balance array that carry both a mint and a uiAmount, for mint m
EntriesOf(xs, m) == {i \in DOMAIN xs : xs[i].has_mint /\ xs[i].has_ui /\ xs[i].mint = m}

\* the balance of m in a balance array, 0 when the array has no entry for m
BalanceOf(xs, m) ==
  IF EntriesOf(xs, m) = {} THEN 0
  ELSE xs[CHOOSE i \in EntriesOf(xs, m) : \A j \in EntriesOf(xs, m) : j <= i].ui

\* the tokens held after the transaction
PostTokens(msg) ==
  IF Readable(msg) THEN {m \in Mints : EntriesOf(msg.post, m) # {}} ELSE {}

Delta(msg, m) == BalanceOf(msg.post, m) - BalanceOf(msg.pre, m)

\* the tokens held after the transaction whose delta no other such token exceeds
MaxDeltaTokens(msg) ==
  {m \in PostTokens(msg) : \A n \in PostTokens(msg) : Delta(msg, n) <= Delta(msg, m)}

\* the tokens of maximum delta, when that delta reaches the dust threshold
SelectedTokens(msg) == {m \in MaxDeltaTokens(msg) : Delta(msg, m) >= DustThreshold}

\* the largest delta of the notification when it reaches the dust threshold, else 0
SelectedDelta(msg) ==
  IF SelectedTokens(msg) = {} THEN 0 ELSE Delta(msg, CHOOSE m \in SelectedTokens(msg) : TRUE)

\* some balance entry of the notification names a mint that is not a public key
HasMalformedMint(msg) ==
  /\ Readable(msg)
  /\ \/ \E i \in DOMAIN msg.pre : msg.pre[i].has_mint /\ msg.pre[i].mint \notin ValidMints
     \/ \E i \in DOMAIN msg.post : msg.post[i].has_mint /\ msg.post[i].mint \notin ValidMints

\* what the balances of each notification of the stream report
Reported ==
  [ msg \in Events |->
      [ selected |-> SelectedTokens(msg), delta |-> SelectedDelta(msg),
        malformed |-> HasMalformedMint(msg) ] ]

\* ------------------------------------------------- external responses
ConnectOutcomes == {"connect_err", "subscribe_err", "ok"}

QuoteResponses ==
  { [delivered |-> FALSE, status |-> 0, json |-> FALSE, body |-> "none"],
    [delivered |-> TRUE, status |-> 400, json |-> FALSE, body |-> "bad request"],
    [delivered |-> TRUE, status |-> 200, json |-> FALSE, body |-> "not json"],
    [delivered |-> TRUE, status |-> 200, json |-> TRUE, body |-> "route"] }

\* the base64 string of a swap response: bytes that do not decode, or a transaction
\* whose message, legacy or v0, carries the blockhash the builder embedded
SwapBlobs ==
  { [decodable |-> FALSE, message |-> NoMessage] }
  \cup { [decodable |-> TRUE, message |-> [kind |-> k, recent_blockhash |-> h]] :
           k \in {"Legacy", "V0"}, h \in Hashes }

SwapResponses ==
  { [delivered |-> FALSE, status |-> 0, json |-> FALSE, body |-> [decodable |-> FALSE, message |-> NoMessage]],
    [delivered |-> TRUE, status |-> 400, json |-> FALSE, body |-> [decodable |-> FALSE, message |-> NoMessage]],
    [delivered |-> TRUE, status |-> 200, json |-> FALSE, body |-> [decodable |-> FALSE, message |-> NoMessage]] }
  \cup { [delivered |-> TRUE, status |-> 200, json |-> TRUE, body |-> b] : b \in SwapBlobs }

BlockhashResponses == { [ok |-> FALSE, hash |-> NoHash] } \cup { [ok |-> TRUE, hash |-> h] : h \in Hashes }

\* send_transaction: an error, or the signature of the submitted transaction
SendResponses == { [ok |-> FALSE, sig |-> NoSig], [ok |-> TRUE, sig |-> "txSig"] }

is_success(status) == status >= 200 /\ status < 300

\* jupiter_quote: Err on a transport error, a non-success status or a body that is not JSON
jupiter_quote(resp) ==
  IF ~resp.delivered THEN [ok |-> FALSE, val |-> "none"]
  ELSE IF ~is_success(resp.status) THEN [ok |-> FALSE, val |-> "none"]
  ELSE IF ~resp.json THEN [ok |-> FALSE, val |-> "none"]
  ELSE [ok |-> TRUE, val |-> resp.body]

\* jupiter_swap_tx: likewise, Ok carries swap_transaction
jupiter_swap_tx(resp) ==
  IF ~resp.delivered THEN [ok |-> FALSE, val |-> resp.body]
  ELSE IF ~is_success(resp.status) THEN [ok |-> FALSE, val |-> resp.body]
  ELSE IF ~resp.json THEN [ok |-> FALSE, val |-> resp.body]
  ELSE [ok |-> TRUE, val |-> resp.body]

\* stream_transactions(ws_endpoint, target_pubkey): Url::parse, connect_async, write.send
stream_transactions(ws_endpoint, outcome) ==
  IF ws_endpoint = "bad_url" THEN "Err"
  ELSE IF outcome = "connect_err" THEN "Err"
  ELSE IF outcome = "subscribe_err" THEN "Err"
  ELSE "Ok"

\* ---------------------------------------------------------- the handlers
Call(o, c) == [o EXCEPT !.calls = Append(@, c)]

Fail(o, what) == [o EXCEPT !.pc = "stream", !.outcome = what, !.had_failure = TRUE]

\* run_copy_trader, lines 11-29
OnStartup(o) ==
  LET r == startup(env)
  IN IF r = "Ok" THEN [o EXCEPT !.pc = "connect"] ELSE [o EXCEPT !.pc = "exit", !.result = r]

\* as connect_forever, but giving up after two failed attempts
connect_forever_Capped(o, res) ==
  IF res = "Ok" THEN [o EXCEPT !.pc = "stream"]
  ELSE IF attempts >= 2 THEN [o EXCEPT !.pc = "exit", !.result = "Err"]
  ELSE [o EXCEPT !.pc = "sleep"]

\* connect_forever: one turn of its loop
connect_forever(o, res) ==
  IF res = "Ok" THEN [o EXCEPT !.pc = "stream"] ELSE [o EXCEPT !.pc = "sleep"]

\* as OnIntent, but a Sell is mirrored by a quote from its token into the native mint
OnIntent_MirrorsSell(o, flag, intent) ==
  IF intent.tag = "Buy"
  THEN LET o1 == [o EXCEPT !.notice = ~flag]
           lamports == sol_to_lamports(intent.max_input_sol)
       IN IF ~lamports.ok
          THEN [o1 EXCEPT !.pc = "exit", !.result = "Err", !.outcome = "rail"]
          ELSE Call([o1 EXCEPT !.pc = "quote", !.outcome = "pending"],
                    [op |-> "jupiter_quote", input_mint |-> SOL_MINT,
                     output_mint |-> intent.output_mint, amount |-> lamports.lamports,
                     slippage_bps |-> SLIPPAGE_BPS_DEFAULT])
  ELSE Call([o EXCEPT !.pc = "quote", !.outcome = "pending"],
            [op |-> "jupiter_quote", input_mint |-> intent.input_mint,
             output_mint |-> SOL_MINT, amount |-> Lamports(0, 0),
             slippage_bps |-> SLIPPAGE_BPS_DEFAULT])

\* as OnIntent, but the quote sells the selected token for the native mint
OnIntent_SwappedMints(o, flag, intent) ==
  IF intent.tag = "Buy"
  THEN LET o1 == [o EXCEPT !.notice = ~flag]
           lamports == sol_to_lamports(intent.max_input_sol)
       IN IF ~lamports.ok
          THEN [o1 EXCEPT !.pc = "exit", !.result = "Err", !.outcome = "rail"]
          ELSE Call([o1 EXCEPT !.pc = "quote", !.outcome = "pending"],
                    [op |-> "jupiter_quote", input_mint |-> intent.output_mint,
                     output_mint |-> SOL_MINT, amount |-> lamports.lamports,
                     slippage_bps |-> SLIPPAGE_BPS_DEFAULT])
  ELSE [o EXCEPT !.outcome = "sell"]

\* as OnIntent, but a Buy is dropped when mirror_buys_only is false
OnIntent_Gated(o, flag, intent) ==
  IF intent.tag = "Buy"
  THEN IF ~flag THEN [o EXCEPT !.notice = TRUE, !.outcome = "gated"]
       ELSE LET lamports == sol_to_lamports(intent.max_input_sol)
            IN IF ~lamports.ok
               THEN [o EXCEPT !.pc = "exit", !.result = "Err", !.outcome = "rail"]
               ELSE Call([o EXCEPT !.pc = "quote", !.outcome = "pending"],
                         [op |-> "jupiter_quote", input_mint |-> SOL_MINT,
                          output_mint |-> intent.output_mint, amount |-> lamports.lamports,
                          slippage_bps |-> SLIPPAGE_BPS_DEFAULT])
  ELSE [o EXCEPT !.outcome = "sell"]

\* the match on the intent, up to the quote request
OnIntent(o, flag, intent) ==
  IF intent.tag = "Buy"
  THEN LET o1 == [o EXCEPT !.notice = ~flag]
           lamports == sol_to_lamports(intent.max_input_sol)
       IN IF ~lamports.ok
          THEN [o1 EXCEPT !.pc = "exit", !.result = "Err", !.outcome = "rail"]
          ELSE Call([o1 EXCEPT !.pc = "quote", !.outcome = "pending"],
                    [op |-> "jupiter_quote", input_mint |-> SOL_MINT,
                     output_mint |-> intent.output_mint, amount |-> lamports.lamports,
                     slippage_bps |-> SLIPPAGE_BPS_DEFAULT])
  ELSE [o EXCEPT !.outcome = "sell"]

BeginEvent(o) ==
  [o EXCEPT !.inferred = FALSE, !.skipped = FALSE, !.notice = FALSE, !.calls = << >>,
            !.swap_message = NoMessage, !.latest = NoHash, !.sent = NoSig]

\* as OnMessage, but an error of infer_intent_from_tx is propagated with `?`
OnMessage_InferErrFatal(o, flag, msg, order) ==
  LET sig == Signature(msg)
  IN IF sig # NoSig /\ o.last_sig = sig
     THEN [BeginEvent(o) EXCEPT !.skipped = TRUE]
     ELSE LET o1 == [BeginEvent(o) EXCEPT !.last_sig = IF sig # NoSig THEN sig ELSE @,
                                          !.inferred = TRUE]
              intent == infer_intent_from_tx(msg, max_buy_sol, order)
          IN IF intent.tag = "Err"
             THEN [o1 EXCEPT !.outcome = "infer_err", !.pc = "exit", !.result = "Err"]
             ELSE IF intent.tag = "None" THEN [o1 EXCEPT !.outcome = "no_intent"]
             ELSE OnIntent(o1, flag, intent)

\* as OnMessage, but the signature is compared as an Option: an unsigned message
\* matches a last_sig of None
OnMessage_DedupUnsigned(o, flag, msg, order) ==
  LET sig == Signature(msg)
  IN IF o.last_sig = sig
     THEN [BeginEvent(o) EXCEPT !.skipped = TRUE]
     ELSE LET o1 == [BeginEvent(o) EXCEPT !.last_sig = IF sig # NoSig THEN sig ELSE @,
                                          !.inferred = TRUE]
              intent == infer_intent_from_tx(msg, max_buy_sol, order)
          IN IF intent.tag = "Err" THEN [o1 EXCEPT !.outcome = "infer_err"]
             ELSE IF intent.tag = "None" THEN [o1 EXCEPT !.outcome = "no_intent"]
             ELSE OnIntent(o1, flag, intent)

\* as OnMessage, but last_sig takes the signature of every message, None included
OnMessage_ForgetOnUnsigned(o, flag, msg, order) ==
  LET sig == Signature(msg)
  IN IF sig # NoSig /\ o.last_sig = sig
     THEN [BeginEvent(o) EXCEPT !.skipped = TRUE]
     ELSE LET o1 == [BeginEvent(o) EXCEPT !.last_sig = sig, !.inferred = TRUE]
              intent == infer_intent_from_tx(msg, max_buy_sol, order)
          IN IF intent.tag = "Err" THEN [o1 EXCEPT !.outcome = "infer_err"]
             ELSE IF intent.tag = "None" THEN [o1 EXCEPT !.outcome = "no_intent"]
             ELSE OnIntent(o1, flag, intent)

\* as OnMessage, but last_sig is recorded only once inference has returned an intent
OnMessage_RecordAfterInference(o, flag, msg, order) ==
  LET sig == Signature(msg)
  IN IF sig # NoSig /\ o.last_sig = sig
     THEN [BeginEvent(o) EXCEPT !.skipped = TRUE]
     ELSE LET o1 == [BeginEvent(o) EXCEPT !.inferred = TRUE]
              o2 == [o1 EXCEPT !.last_sig = IF sig # NoSig THEN sig ELSE @]
              intent == infer_intent_from_tx(msg, max_buy_sol, order)
          IN IF intent.tag = "Err" THEN [o1 EXCEPT !.outcome = "infer_err"]
             ELSE IF intent.tag = "None" THEN [o1 EXCEPT !.outcome = "no_intent"]
             ELSE OnIntent(o2, flag, intent)

\* the loop body for one message, up to the first await
OnMessage(o, flag, msg, order) ==
  LET sig == Signature(msg)
  IN IF sig # NoSig /\ o.last_sig = sig
     THEN [BeginEvent(o) EXCEPT !.skipped = TRUE]
     ELSE LET o1 == [BeginEvent(o) EXCEPT !.last_sig = IF sig # NoSig THEN sig ELSE @,
                                          !.inferred = TRUE]
              intent == infer_intent_from_tx(msg, max_buy_sol, order)
          IN IF intent.tag = "Err" THEN [o1 EXCEPT !.outcome = "infer_err"]
             ELSE IF intent.tag = "None" THEN [o1 EXCEPT !.outcome = "no_intent"]
             ELSE OnIntent(o1, flag, intent)

\* stream.next() returned None: the loop ends and run_copy_trader returns Ok(())
OnStreamEnd(o) == [o EXCEPT !.pc = "exit", !.result = "Ok"]

\* as OnQuote, but a failed quote is only logged and the swap-build request follows
OnQuote_FallThrough(o, res) ==
  Call([o EXCEPT !.pc = "swap", !.outcome = IF res.ok THEN @ ELSE "quote_err",
                 !.had_failure = IF res.ok THEN @ ELSE TRUE],
       [op |-> "jupiter_swap_tx", quote_response |-> res.val,
        user_public_key |-> "WalletKey", prioritization_fee_lamports |-> 0])

\* the quote result, then the swap-build request
OnQuote(o, res) ==
  IF ~res.ok THEN Fail(o, "quote_err")
  ELSE Call([o EXCEPT !.pc = "swap"],
            [op |-> "jupiter_swap_tx", quote_response |-> res.val,
             user_public_key |-> "WalletKey", prioritization_fee_lamports |-> 0])

\* as OnSwap, but the transaction of the swap response is submitted as it came,
\* before any blockhash is fetched
OnSwap_SubmitsAtOnce(o, res) ==
  IF ~res.ok THEN Fail(o, "swap_err")
  ELSE IF ~res.val.decodable THEN Fail(o, "decode_err")
  ELSE Call([o EXCEPT !.pc = "send", !.swap_message = res.val.message],
            [op |-> "send_transaction",
             tx |-> [message |-> res.val.message, signatures |-> << >>]])

\* the swap-build result, then sign_and_send_swap up to the blockhash request
OnSwap(o, res) ==
  IF ~res.ok THEN Fail(o, "swap_err")
  ELSE IF ~res.val.decodable THEN Fail(o, "decode_err")
  ELSE Call([o EXCEPT !.pc = "blockhash", !.swap_message = res.val.message],
            [op |-> "get_latest_blockhash"])

\* sign_and_send_swap from the blockhash result to the submission
OnBlockhash(o, res) ==
  IF ~res.ok THEN Fail(o, "blockhash_err")
  ELSE Call([o EXCEPT !.pc = "send", !.latest = res.hash],
            [op |-> "send_transaction",
             tx |-> ResignWithBlockhash(o.swap_message, "WalletKey", res.hash)])

\* as OnSend, but a failed submission is repeated once with the same transaction
OnSend_Resubmit(o, res) ==
  IF ~res.ok
  THEN IF Len(o.calls) < 5
       THEN Call([o EXCEPT !.outcome = "send_err", !.had_failure = TRUE], o.calls[Len(o.calls)])
       ELSE Fail(o, "send_err")
  ELSE [o EXCEPT !.pc = "stream", !.outcome = "sent", !.sent = res.sig]

\* as OnSend, but a failed submission is propagated out of run_copy_trader
OnSend_Propagate(o, res) ==
  IF ~res.ok THEN [o EXCEPT !.pc = "exit", !.result = "Err", !.outcome = "send_err",
                            !.had_failure = TRUE]
  ELSE [o EXCEPT !.pc = "stream", !.outcome = "sent", !.sent = res.sig]

\* the result of the submission: Ok(sig) of sign_and_send_swap is logged
OnSend(o, res) ==
  IF ~res.ok THEN Fail(o, "send_err")
  ELSE [o EXCEPT !.pc = "stream", !.outcome = "sent", !.sent = res.sig]

\* ------------------------------------------------------------ the actions
Step(p, H(_)) == [f \in BOOLEAN |-> IF orch[f].pc = p THEN H(orch[f]) ELSE orch[f]]

Startup ==
  /\ At("startup")
  /\ orch' = Step("startup", OnStartup)
  /\ UNCHANGED <<env, socket, attempts, feed, probe>>

ConnectAttempt ==
  /\ At("connect")
  /\ \E outcome \in ConnectOutcomes :
       LET res == stream_transactions(env.RPC_WEBSOCKET_ENDPOINT, outcome)
           H(o) == connect_forever(o, res)
       IN /\ orch' = Step("connect", H)
          /\ socket' = IF res = "Ok" THEN "open" ELSE socket
          /\ attempts' = IF res = "Ok" THEN 0
                         ELSE IF attempts < MaxAttempts THEN attempts + 1 ELSE attempts
  /\ UNCHANGED <<env, feed, probe>>

RetryAfterSleep ==
  /\ At("sleep")
  /\ LET H(o) == [o EXCEPT !.pc = "connect"] IN orch' = Step("sleep", H)
  /\ UNCHANGED <<env, socket, attempts, feed, probe>>

NextEvent ==
  /\ At("stream")
  /\ socket = "open"
  /\ \E msg \in Events : \E order \in Orders(PostMints(msg)) :
       /\ LET H(o) == OnMessage(o, mirror_buys_only(o.flag), msg, order)
          IN orch' = Step("stream", H)
       /\ feed' = [seen |-> feed.seen \cup ({feed.cur} \ {NoSig}),
                   prev |-> feed.cur,
                   last_signed |-> IF feed.cur # NoSig THEN feed.cur ELSE feed.last_signed,
                   cur |-> Signature(msg),
                   events |-> IF feed.events = "none" THEN "one" ELSE "more",
                   selected |-> Reported[msg].selected,
                   delta |-> Reported[msg].delta,
                   malformed |-> Reported[msg].malformed]
  /\ UNCHANGED <<env, socket, attempts, probe>>

StreamEnd ==
  /\ At("stream")
  /\ socket = "open"
  /\ socket' = "closed"
  /\ orch' = Step("stream", OnStreamEnd)
  /\ UNCHANGED <<env, attempts, feed, probe>>

QuoteResponse ==
  /\ At("quote")
  /\ \E resp \in QuoteResponses :
       LET H(o) == OnQuote(o, jupiter_quote(resp)) IN orch' = Step("quote", H)
  /\ UNCHANGED <<env, socket, attempts, feed, probe>>

SwapResponse ==
  /\ At("swap")
  /\ \E resp \in SwapResponses :
       LET H(o) == OnSwap(o, jupiter_swap_tx(resp)) IN orch' = Step("swap", H)
  /\ UNCHANGED <<env, socket, attempts, feed, probe>>

BlockhashResponse ==
  /\ At("blockhash")
  /\ \E resp \in BlockhashResponses :
       LET H(o) == OnBlockhash(o, resp) IN orch' = Step("blockhash", H)
  /\ UNCHANGED <<env, socket, attempts, feed, probe>>

SendResponse ==
  /\ At("send")
  /\ \E resp \in SendResponses :
       LET H(o) == OnSend(o, resp) IN orch' = Step("send", H)
  /\ UNCHANGED <<env, socket, attempts, feed, probe>>

Next ==
  \/ Startup
  \/ ConnectAttempt
  \/ RetryAfterSleep
  \/ NextEvent
  \/ StreamEnd
  \/ QuoteResponse
  \/ SwapResponse
  \/ BlockhashResponse
  \/ SendResponse

Spec == Init /\ [][Next]_vars

\* ------------------------------------------ the functions applied on their own
\* the order of a balance entry in the arrays below: by mint, then the entries
\* without uiAmount, then those without mint
Slot(e) ==
  IF ~e.has_mint THEN 6
  ELSE IF ~e.has_ui THEN 5
  ELSE CASE e.mint = "MintA" -> 1 [] e.mint = "MintB" -> 2 [] e.mint = "MintC" -> 3 [] OTHER -> 4

\* uiAmount values: below the dust threshold, and two different values above it
UiValues == {1, DustThreshold + 1, MaxUi + 1}

BalanceEntries ==
  { Entry(m, u) : m \in Mints, u \in UiValues }
  \cup { [Entry("MintA", 0) EXCEPT !.has_ui = FALSE], [Entry("", MaxUi) EXCEPT !.has_mint = FALSE] }

\* postTokenBalances of up to MaxBalances entries; entries of one mint keep every
\* relative order, entries of different mints are listed in the order of Slot
PostLists ==
  UNION { { s \in [1..n -> BalanceEntries] : \A i \in 1..(n - 1) : Slot(s[i]) <= Slot(s[i + 1]) } :
          n \in 0..MaxBalances }

PreLists ==
  { << >>, <<[Entry("MintA", 0) EXCEPT !.has_ui = FALSE]>> }
  \cup { <<Entry(m, u)>> : m \in Mints, u \in {1, MaxUi} }

InferInputs ==
  { Probe("infer", [shape |-> "params", signature |-> NoSig, has_meta |-> TRUE, pre |-> a, post |-> b],
          DEFAULT_MAX_BUY_SOL, IntentNone) :
      a \in PreLists, b \in PostLists }
  \cup { Probe("infer", msg, sol, IntentNone) :
          msg \in Events, sol \in {DEFAULT_MAX_BUY_SOL, Sol(0, 100000000)} }

\* token accounts of the target and of another account, for the same two mints
OwnerEntries ==
  { Entry(m, u) : m \in {"MintA", "MintB"}, u \in {1, MaxUi + 1} }
  \cup { OtherEntry(m, u) : m \in {"MintA", "MintB"}, u \in {1, MaxUi + 1} }

\* notifications of transactions that mention the target and move balances of
\* one or two token accounts, the target's or another account's
OwnerInputs ==
  { Probe("infer", [shape |-> "params", signature |-> NoSig, has_meta |-> TRUE, pre |-> a, post |-> b],
          DEFAULT_MAX_BUY_SOL, IntentNone) :
      a \in { << >> } \cup { <<e>> : e \in OwnerEntries },
      b \in { <<e>> : e \in OwnerEntries } \cup { <<d, e>> : d \in OwnerEntries, e \in OwnerEntries } }

\* amounts around both rails, on and between whole lamports
LamportsInputs ==
  { Probe("lamports", NoNotification, Sol(w, h), IntentNone) :
      w \in {-1, 0, 1, MAX_SAFE_SOL - 1, MAX_SAFE_SOL, MAX_SAFE_SOL + 1},
      h \in {0, 1, 2, 3, 40000000, 100000000,
             2 * LAMPORTS_PER_SOL - 2, 2 * LAMPORTS_PER_SOL - 1} }

\* a run inside the loop body, after the signature check of the current message
AtMatch ==
  { [BeginEvent(InitRun(f)) EXCEPT !.pc = "stream", !.inferred = TRUE, !.last_sig = s] :
      f \in BOOLEAN, s \in SigOpt }

\* the values of MirrorIntent that can reach the match in run_copy_trader
IntentInputs ==
  { [Probe("intent", NoNotification, Sol(0, 0), i) EXCEPT !.before = b, !.after = b] :
      b \in AtMatch,
      i \in { Sell(m) : m \in ValidMints }
            \cup { Buy(m, sol) : m \in ValidMints, sol \in {DEFAULT_MAX_BUY_SOL, Sol(MAX_SAFE_SOL + 1, 0)} } }

ProbeInputs == InferInputs \cup OwnerInputs \cup LamportsInputs \cup IntentInputs

InitPure ==
  /\ env = [RPC_ENDPOINT |-> "set", RPC_WEBSOCKET_ENDPOINT |-> "valid", PRIVATE_KEY |-> "valid",
            TARGET_PUBKEY |-> "TargetKey", MAX_BUY_SOL |-> [status |-> "unset", val |-> Sol(0, 0)]]
  /\ orch = [f \in BOOLEAN |-> InitRun(f)]
  /\ socket = "none"
  /\ attempts = 0
  /\ feed = InitFeed
  /\ probe \in ProbeInputs

ApplyInfer ==
  /\ probe.kind = "infer"
  /\ probe.pc = "input"
  /\ \E order \in Orders(PostMints(probe.msg)) :
       probe' = [probe EXCEPT !.pc = "once",
                              !.first = infer_intent_from_tx(probe.msg, probe.sol, order)]
  /\ UNCHANGED <<env, orch, socket, attempts, feed>>

ApplyInferAgain ==
  /\ probe.kind = "infer"
  /\ probe.pc = "once"
  /\ \E order \in Orders(PostMints(probe.msg)) :
       probe' = [probe EXCEPT !.pc = "twice",
                              !.second = infer_intent_from_tx(probe.msg, probe.sol, order)]
  /\ UNCHANGED <<env, orch, socket, attempts, feed>>

ApplySolToLamports ==
  /\ probe.kind = "lamports"
  /\ probe.pc = "input"
  /\ probe' = [probe EXCEPT !.pc = "once", !.lamports = sol_to_lamports(probe.sol)]
  /\ UNCHANGED <<env, orch, socket, attempts, feed>>

ApplyOnIntent ==
  /\ probe.kind = "intent"
  /\ probe.pc = "input"
  /\ probe' = [probe EXCEPT !.pc = "once",
                            !.after = OnIntent(probe.before, mirror_buys_only(probe.before.flag),
                                               probe.intent)]
  /\ UNCHANGED <<env, orch, socket, attempts, feed>>

NextPure ==
  \/ ApplyInfer
  \/ ApplyInferAgain
  \/ ApplySolToLamports
  \/ ApplyOnIntent

SpecPure == InitPure /\ [][NextPure]_vars

\* ------------------------------------------------------------- the claims
HasCall(o, op) == \E i \in DOMAIN o.calls : o.calls[i].op = op

\* no inference call and no execution attempt was made for the current event
Untouched(o) == ~o.inferred /\ o.calls = << >>

PipelineFailures == {"quote_err", "swap_err", "decode_err", "blockhash_err", "send_err"}

RequiredSettingsValid ==
  /\ env.RPC_ENDPOINT = "set"
  /\ env.RPC_WEBSOCKET_ENDPOINT = "valid"
  /\ env.PRIVATE_KEY = "valid"
  /\ env.TARGET_PUBKEY = "TargetKey"

\* C1 as stated: an event whose signature equals the signature of ANY earlier event
\* of the stream causes no inference call and no execution attempt.
C1_AnyEarlierSignatureSkipped ==
  \A f \in BOOLEAN :
    (feed.cur # NoSig /\ feed.cur \in feed.seen) => Untouched(orch[f])

\* C1 amended: an event whose signature equals the signature of the most recent
\* earlier event that carried one (unsigned events in between do not count) is
\* skipped: no inference call and no execution attempt.
C1_LastSignedSignatureSkipped ==
  \A f \in BOOLEAN :
    (feed.cur # NoSig /\ feed.cur = feed.last_signed) => (orch[f].skipped /\ Untouched(orch[f]))

\* a signed event, an unsigned one, then the first signature again: skipped
C1_Witness ==
  /\ feed.cur # NoSig /\ feed.cur = feed.last_signed /\ feed.prev = NoSig
  /\ orch[TRUE].skipped /\ orch[FALSE].skipped

\* C2: when two consecutive signed events carry the same signature the second is
\* skipped entirely (no inference, no execution attempt), whatever the first led to.
C2_ConsecutiveDuplicateSkipped ==
  \A f \in BOOLEAN :
    (feed.cur # NoSig /\ feed.cur = feed.prev) => (orch[f].skipped /\ Untouched(orch[f]))

\* the duplicate of an event on which inference failed is skipped
C2_Witness ==
  /\ feed.cur # NoSig /\ feed.cur = feed.prev
  /\ orch[TRUE].skipped /\ orch[TRUE].outcome = "infer_err"

\* C3: once streaming has begun, a socket error or closure never ends the
\* orchestrator loop (run_copy_trader does not return).
C3_SocketLossKeepsLoopAlive ==
  socket = "closed" => \A f \in BOOLEAN : orch[f].pc # "exit" /\ orch[f].result = "running"

\* C4: after a safety-rail rejection the orchestrator is back at the stream, running.
C4_RailRejectionRecoverable ==
  \A f \in BOOLEAN :
    orch[f].outcome = "rail" =>
      (orch[f].pc = "stream" /\ orch[f].result = "running" /\ orch[f].calls = << >>)

\* C5: when a pipeline step fails for an event no later step is performed for it:
\* no swap-build after a failed quote, no blockhash fetch after a failed swap-build,
\* no submission after a failed decode or blockhash fetch.
C5_NoStepAfterFailure ==
  \A f \in BOOLEAN :
    LET o == orch[f]
    IN /\ o.outcome = "quote_err" =>
            ~(HasCall(o, "jupiter_swap_tx") \/ HasCall(o, "get_latest_blockhash")
              \/ HasCall(o, "send_transaction"))
       /\ o.outcome = "swap_err" =>
            ~(HasCall(o, "get_latest_blockhash") \/ HasCall(o, "send_transaction"))
       /\ o.outcome = "decode_err" =>
            ~(HasCall(o, "get_latest_blockhash") \/ HasCall(o, "send_transaction"))
       /\ o.outcome = "blockhash_err" => ~HasCall(o, "send_transaction")
       /\ (o.outcome \in PipelineFailures /\ ~o.skipped) =>
            (o.pc \in {"stream", "exit"} /\ HasCall(o, "jupiter_quote"))

\* the quote request of the current event failed
C5_Witness ==
  /\ orch[TRUE].outcome = "quote_err" /\ ~orch[TRUE].skipped
  /\ HasCall(orch[TRUE], "jupiter_quote")

\* C6: a step of the pipeline that fails leaves the orchestrator running and back
\* at the stream, whose next event it can read.
C6_FailureReturnsToStream ==
  [][\A f \in BOOLEAN :
       (orch[f].pc \in {"quote", "swap", "blockhash", "send"}
        /\ orch'[f].outcome \in PipelineFailures)
       => (orch'[f].pc = "stream" /\ orch'[f].result = "running" /\ socket' = "open")]_vars

\* after a failed step a later event went through the whole pipeline
C6_Witness ==
  orch[TRUE].had_failure /\ orch[TRUE].outcome = "sent" /\ orch[TRUE].pc = "stream"

\* C7: a submitted transaction carries the blockhash fetched in the same execution,
\* after the swap-build response, in either encoding, and is signed over that message.
C7_SubmittedCarriesFetchedBlockhash ==
  \A f \in BOOLEAN :
    LET o == orch[f]
    IN \A i \in DOMAIN o.calls :
         o.calls[i].op = "send_transaction" =>
           LET tx == o.calls[i].tx
           IN /\ o.latest \in Hashes
              /\ tx.message.recent_blockhash = o.latest
              /\ tx.message.kind = o.swap_message.kind
              /\ Len(tx.signatures) = 1
              /\ tx.signatures[1].signer = "WalletKey"
              /\ tx.signatures[1].message = tx.message
              /\ \E j, k \in 1..(i - 1) :
                   /\ j < k
                   /\ o.calls[j].op = "jupiter_swap_tx"
                   /\ o.calls[k].op = "get_latest_blockhash"

\* a v0 transaction was submitted whose builder had embedded another blockhash
C7_Witness ==
  /\ HasCall(orch[TRUE], "send_transaction")
  /\ orch[TRUE].swap_message.kind = "V0"
  /\ orch[TRUE].swap_message.recent_blockhash # orch[TRUE].latest

\* C8: the two runs, which differ only in mirror_buys_only, make the same requests
\* and submissions and are at the same place with the same outcome.
C8_FlagDoesNotGate ==
  /\ orch[TRUE].calls = orch[FALSE].calls
  /\ orch[TRUE].pc = orch[FALSE].pc
  /\ orch[TRUE].outcome = orch[FALSE].outcome
  /\ orch[TRUE].result = orch[FALSE].result

\* a Buy is being executed by both runs, and only the run with the flag unset logged
C8_Witness ==
  /\ orch[TRUE].pc = "quote" /\ orch[FALSE].pc = "quote"
  /\ orch[FALSE].notice /\ ~orch[TRUE].notice

\* C9: a failed attempt of connect_forever leads to the wait and the wait to another
\* attempt, however many attempts have failed; it returns only with an open stream.
C9_ConnectForeverNeverFails ==
  [][\A f \in BOOLEAN :
       /\ orch[f].pc = "connect" =>
            /\ orch'[f].result = "running"
            /\ \/ orch'[f].pc = "connect"
               \/ orch'[f].pc = "sleep" /\ socket' = socket
               \/ orch'[f].pc = "stream" /\ socket' = "open"
       /\ orch[f].pc = "sleep" =>
            (orch'[f].result = "running" /\ orch'[f].pc \in {"sleep", "connect"})]_vars

\* one more attempt is under way after MaxAttempts failed ones
C9_Witness ==
  attempts = MaxAttempts /\ orch[TRUE].pc = "connect" /\ env.RPC_WEBSOCKET_ENDPOINT = "valid"

\* C10: with a missing or invalid required setting run_copy_trader ends with an
\* error before the main loop: no failed connect attempt is retried, no event is read.
C10_InvalidSettingIsFatal ==
  ~RequiredSettingsValid =>
    \A f \in BOOLEAN :
      \/ orch[f].pc = "startup"
      \/ orch[f].pc = "connect" /\ attempts = 0
      \/ orch[f].pc = "exit" /\ orch[f].result \in {"Err", "Panic"}

\* ---- inference, checked on single applications of infer_intent_from_tx
Inferred == probe.kind = "infer" /\ probe.pc # "input"

\* C11 as stated: infer returns None whenever no token held after the transaction
\* has a delta strictly greater than the dust threshold.
C11_NoneUnlessAboveDust ==
  (Inferred /\ \A m \in PostTokens(probe.msg) : ~(Delta(probe.msg, m) > DustThreshold))
    => probe.first = IntentNone

\* C11 amended: infer returns None exactly when no token held after the transaction
\* has a delta of at least the dust threshold; a delta equal to the threshold
\* already makes its token a candidate.
C11_NoneUnlessAtLeastDust ==
  Inferred =>
    (probe.first.tag = "None"
       <=> \A m \in PostTokens(probe.msg) : ~(Delta(probe.msg, m) >= DustThreshold))

\* a token gained less than the dust threshold, another lost balance, and the result is None
C11_Witness ==
  /\ Inferred
  /\ probe.first.tag = "None"
  /\ \E m \in PostTokens(probe.msg) : Delta(probe.msg, m) > 0 /\ Delta(probe.msg, m) < DustThreshold
  /\ \E m \in PostTokens(probe.msg) : Delta(probe.msg, m) < 0

\* C12 as stated: when some token held after the transaction has a delta above the
\* dust threshold, infer returns Buy and the output token has the maximum delta
\* among the tokens held after the transaction.
C12_BuyOfMaxDelta ==
  (Inferred /\ \E m \in PostTokens(probe.msg) : Delta(probe.msg, m) > DustThreshold)
    => /\ probe.first.tag = "Buy"
       /\ probe.first.output_mint \in MaxDeltaTokens(probe.msg)

\* C12 amended: when some token held after the transaction has a delta above the
\* dust threshold, infer selects a token of maximum delta; it returns Buy for that
\* token when its identifier parses as a public key and an error when it does not.
C12_BuyOrErrOfMaxDelta ==
  (Inferred /\ \E m \in PostTokens(probe.msg) : Delta(probe.msg, m) > DustThreshold)
    => \/ /\ probe.first.tag = "Buy"
          /\ probe.first.output_mint \in MaxDeltaTokens(probe.msg) \cap ValidMints
       \/ /\ probe.first.tag = "Err"
          /\ MaxDeltaTokens(probe.msg) \ ValidMints # {}

\* pre = {A}, post = {A unchanged, B and C both above the dust threshold, C more}: Buy of C
C12_Witness ==
  /\ Inferred
  /\ BalanceOf(probe.msg.pre, "MintA") > 0
  /\ Delta(probe.msg, "MintA") = 0
  /\ Delta(probe.msg, "MintB") > DustThreshold
  /\ Delta(probe.msg, "MintC") > Delta(probe.msg, "MintB")
  /\ probe.first = Buy("MintC", probe.sol)

\* C13: two applications of infer to the same event payload and the same maximum buy
\* amount return the same result, also when several tokens tie for the largest delta.
C13_InferDeterministic ==
  (probe.kind = "infer" /\ probe.pc = "twice") =>
    /\ probe.first.tag = probe.second.tag
    /\ (probe.first.tag = "Buy" => probe.first = probe.second)

\* ---- the trade pipeline, checked on the runs of run_copy_trader
\* the calls of one kind made for the current event
CallsOf(o, op) == SelectSeq(o.calls, LAMBDA c : c.op = op)

\* 0 <= sol <= 1000 native units
WithinRails(sol) ==
  /\ sol.whole >= 0
  /\ sol.whole < MAX_SAFE_SOL \/ (sol.whole = MAX_SAFE_SOL /\ sol.half = 0)

\* l is sol * 1e9 rounded to the nearest integer, a half rounded up
IsRounded(sol, l) ==
  /\ l.units >= 0 /\ l.units < LAMPORTS_PER_SOL
  /\ \/ l.giga = sol.whole /\ 2 * l.units - sol.half \in {0, 1}
     \/ l.giga = sol.whole + 1 /\ l.units = 0 /\ sol.half = 2 * LAMPORTS_PER_SOL - 1

\* the current event went to inference and its balances select exactly the token m
Selects(o, m) == o.inferred /\ feed.events # "none" /\ feed.selected = {m}

\* C14: for an event on which inference selects a token M (and with the configured
\* maximum buy amount inside the rails), exactly one quote is requested, from the
\* native mint into M, for the configured maximum converted to lamports (0.05 gives
\* 50_000_000) whatever the observed delta; when every step succeeds exactly one
\* transaction is submitted and the signature the node returns is the result.
C14_OneQuoteOfMaxBuyIntoSelected ==
  \A f \in BOOLEAN : \A m \in ValidMints :
    LET o == orch[f]
        quotes == CallsOf(o, "jupiter_quote")
    IN (Selects(o, m) /\ WithinRails(max_buy_sol)) =>
         /\ Len(quotes) = 1
         /\ quotes[1].input_mint = SOL_MINT
         /\ quotes[1].output_mint = m
         /\ IsRounded(max_buy_sol, quotes[1].amount)
         /\ (env.MAX_BUY_SOL = [status |-> "number", val |-> Sol(0, 100000000)]
               => quotes[1].amount = Lamports(0, 50000000))
         /\ (o.outcome = "sent" =>
               /\ Len(CallsOf(o, "send_transaction")) = 1
               /\ o.sent = "txSig")
         /\ (o.sent # NoSig => o.outcome = "sent")

\* max buy 0.05, a delta above the dust threshold, every step succeeded
C14_Witness ==
  \E f \in BOOLEAN : \E m \in ValidMints :
    /\ Selects(orch[f], m)
    /\ feed.delta > DustThreshold
    /\ env.MAX_BUY_SOL = [status |-> "number", val |-> Sol(0, 100000000)]
    /\ orch[f].outcome = "sent"
    /\ orch[f].sent = "txSig"
    /\ CallsOf(orch[f], "jupiter_quote")[1].amount = Lamports(0, 50000000)

\* ---- the conversion, checked on single applications of sol_to_lamports
\* C15: sol_to_lamports rejects every amount below 0 or above 1000 (-1 and 1001 among
\* them) and accepts every amount from 0 to 1000, both included, returning the amount
\* times 1e9 rounded to the nearest integer (0.02 gives exactly 20_000_000).
C15_SolToLamports ==
  (probe.kind = "lamports" /\ probe.pc = "once") =>
    /\ probe.lamports.ok <=> WithinRails(probe.sol)
    /\ probe.lamports.ok => IsRounded(probe.sol, probe.lamports.lamports)
    /\ probe.sol \in {Sol(-1, 0), Sol(MAX_SAFE_SOL + 1, 0)} => ~probe.lamports.ok
    /\ probe.sol = Sol(0, 40000000) => probe.lamports = [ok |-> TRUE, lamports |-> Lamports(0, 20000000)]
    /\ probe.sol = Sol(0, 0) => probe.lamports = [ok |-> TRUE, lamports |-> Lamports(0, 0)]
    /\ probe.sol = Sol(MAX_SAFE_SOL, 0) =>
         probe.lamports = [ok |-> TRUE, lamports |-> Lamports(MAX_SAFE_SOL, 0)]

\* an amount half a lamport below 1000 is accepted and rounded up to 1000 * 1e9
C15_Witness ==
  /\ probe.kind = "lamports"
  /\ probe.pc = "once"
  /\ probe.sol = Sol(MAX_SAFE_SOL - 1, 2 * LAMPORTS_PER_SOL - 1)
  /\ probe.lamports = [ok |-> TRUE, lamports |-> Lamports(MAX_SAFE_SOL, 0)]

\* C16: for every processed event at most one quote request, one swap-build request
\* and one submission are made, and after a failure inside sign_and_send_swap
\* (decoding, blockhash fetch, submission) nothing more is requested for the event:
\* no second submission follows a failed one. (outcome is the outcome of the last
\* event that was not skipped as a duplicate.)
C16_AtMostOnceNoRetry ==
  \A f \in BOOLEAN :
    LET o == orch[f]
    IN /\ Len(CallsOf(o, "jupiter_quote")) <= 1
       /\ Len(CallsOf(o, "jupiter_swap_tx")) <= 1
       /\ Len(CallsOf(o, "get_latest_blockhash")) <= 1
       /\ Len(CallsOf(o, "send_transaction")) <= 1
       /\ (~o.skipped /\ o.outcome = "send_err") =>
            /\ Len(CallsOf(o, "send_transaction")) = 1
            /\ o.pc \in {"stream", "exit"}
            /\ o.sent = NoSig
       /\ (~o.skipped /\ o.outcome \in {"decode_err", "blockhash_err"}) =>
            /\ Len(CallsOf(o, "jupiter_swap_tx")) = 1
            /\ CallsOf(o, "send_transaction") = << >>
            /\ o.pc \in {"stream", "exit"}

\* a submission failed: it was the only one and the run is back at the stream
C16_Witness ==
  \E f \in BOOLEAN :
    /\ orch[f].outcome = "send_err"
    /\ orch[f].pc = "stream"
    /\ Len(CallsOf(orch[f], "send_transaction")) = 1
    /\ Len(CallsOf(orch[f], "jupiter_quote")) = 1
    /\ Len(CallsOf(orch[f], "jupiter_swap_tx")) = 1

\* C17: an event without an extractable signature is never skipped as a duplicate: it
\* goes to inference whatever came before it, and last_sig is after it what it was
\* before it.
C17_UnsignedAlwaysInferred ==
  [][ \A f \in BOOLEAN :
        (orch[f].pc = "stream" /\ socket' = "open" /\ feed'.events # "none" /\ feed'.cur = NoSig)
          => /\ orch'[f].inferred
             /\ ~orch'[f].skipped
             /\ orch'[f].last_sig = orch[f].last_sig ]_vars

\* a signed event, then two unsigned ones: the second went to inference and
\* last_sig still holds the signature of the first
C17_Witness ==
  /\ feed.events = "more"
  /\ feed.cur = NoSig
  /\ feed.prev = NoSig
  /\ feed.last_signed \in Signatures
  /\ \E f \in BOOLEAN :
       /\ orch[f].inferred
       /\ ~orch[f].skipped
       /\ orch[f].last_sig = feed.last_signed

\* ---- the match on the intent, checked on single applications
\* C18: on a Sell intent no quote request, no swap-build request and no submission
\* is made, and the run stays in the loop, ready for the next event.
C18_SellTakesNoAction ==
  (probe.kind = "intent" /\ probe.pc = "once" /\ probe.intent.tag = "Sell") =>
    /\ probe.after.calls = << >>
    /\ probe.after.pc = "stream"
    /\ probe.after.result = "running"
    /\ probe.after.sent = NoSig
    /\ probe.after.last_sig = probe.before.last_sig

\* a Sell reached the match of a run with mirror_buys_only = false
C18_Witness ==
  /\ probe.kind = "intent"
  /\ probe.pc = "once"
  /\ probe.intent = Sell("MintA")
  /\ ~probe.before.flag
  /\ probe.after.outcome = "sell"
  /\ probe.after.calls = << >>
  /\ probe.after.pc = "stream"

\* ---- ordering
\* the requests of one pipeline, in the order of the code, and the pc that awaits each
PipelineOps == <<"jupiter_quote", "jupiter_swap_tx", "get_latest_blockhash", "send_transaction">>
PipelinePcs == <<"quote", "swap", "blockhash", "send">>

\* the calls made for the current event are the first requests of the pipeline, in order
InOrder(o) ==
  /\ Len(o.calls) <= Len(PipelineOps)
  /\ \A i \in DOMAIN o.calls : o.calls[i].op = PipelineOps[i]

\* C19: one pipeline at most is in flight and its steps are strictly ordered: the
\* quote completes before the swap-build starts, the swap-build before the blockhash
\* fetch, the fetch before signing, signing before submission; and no event is read
\* from the stream while a request of the pipeline is pending.
C19_OnePipelineInOrder ==
  /\ [](\A f \in BOOLEAN :
          LET o == orch[f]
          IN /\ InOrder(o)
             /\ \A i \in DOMAIN PipelinePcs :
                  o.pc = PipelinePcs[i] => Len(o.calls) = i
             /\ Len(o.calls) >= 2 => o.calls[2].quote_response = "route"
             /\ Len(o.calls) >= 3 => o.swap_message # NoMessage
             /\ Len(o.calls) >= 4 =>
                  /\ o.latest \in Hashes
                  /\ o.calls[4].tx.message.recent_blockhash = o.latest
                  /\ Len(o.calls[4].tx.signatures) = 1
                  /\ o.calls[4].tx.signatures[1].message = o.calls[4].tx.message)
  /\ [][ /\ feed' # feed => \A f \in BOOLEAN : orch[f].pc = "stream"
         /\ \A f \in BOOLEAN :
              orch'[f].calls # orch[f].calls =>
                \/ orch[f].pc = "stream" /\ Len(orch'[f].calls) <= 1
                \/ /\ \E i \in DOMAIN PipelinePcs : orch[f].pc = PipelinePcs[i]
                   /\ Len(orch'[f].calls) = Len(orch[f].calls) + 1
                   /\ SubSeq(orch'[f].calls, 1, Len(orch[f].calls)) = orch[f].calls ]_vars

\* the four requests of one event were made, one after the other, and the
\* transaction submitted last was signed over the fetched blockhash
C19_Witness ==
  \E f \in BOOLEAN :
    /\ Len(orch[f].calls) = 4
    /\ orch[f].pc = "send"
    /\ orch[f].calls[4].tx.message.recent_blockhash = orch[f].latest

\* ---- errors of inference
\* C20 as stated: an event whose balance data names a mint that is not a public key
\* ends in an inference error, with no execution attempt, and the loop goes on.
C20_MalformedMintIsInferenceError ==
  [][ \A f \in BOOLEAN :
        (orch[f].pc = "stream" /\ socket' = "open" /\ orch'[f].inferred /\ feed'.malformed)
          => /\ orch'[f].outcome = "infer_err"
             /\ orch'[f].calls = << >>
             /\ orch'[f].pc = "stream"
             /\ orch'[f].result = "running" ]_vars

\* C20 amended: an event whose selected token (the one of largest delta, that delta
\* reaching the dust threshold) has an identifier that is not a public key ends in an
\* inference error, with no execution attempt, and the loop goes on with the next
\* event; a malformed identifier of any other token goes unnoticed.
C20_MalformedSelectedMintIsInferenceError ==
  [][ \A f \in BOOLEAN :
        (orch[f].pc = "stream" /\ socket' = "open" /\ orch'[f].inferred /\ feed'.events # "none")
          => /\ (feed'.selected # {} /\ feed'.selected \cap ValidMints = {}) =>
                  /\ orch'[f].outcome = "infer_err"
                  /\ orch'[f].calls = << >>
                  /\ orch'[f].pc = "stream"
                  /\ orch'[f].result = "running"
             /\ (feed'.malformed /\ feed'.selected = {}) =>
                  /\ orch'[f].outcome = "no_intent"
                  /\ orch'[f].calls = << >>
                  /\ orch'[f].pc = "stream" ]_vars

\* the selected token of the current event is not a public key: inference failed,
\* nothing was requested and the run is at the stream again
C20_Witness ==
  \E f \in BOOLEAN :
    /\ feed.selected = {BadMint}
    /\ orch[f].inferred
    /\ orch[f].outcome = "infer_err"
    /\ orch[f].calls = << >>
    /\ orch[f].pc = "stream"
    /\ orch[f].result = "running"
    /\ socket = "open"

\* ---- whose balances inference reads
\* the entries of a balance array for mint m that belong to the target account
TargetEntriesOf(xs, m) == {i \in EntriesOf(xs, m) : xs[i].owner = "TargetKey"}

\* the target account's balance of m in a balance array, 0 without such an entry
TargetBalanceOf(xs, m) ==
  IF TargetEntriesOf(xs, m) = {} THEN 0
  ELSE xs[CHOOSE i \in TargetEntriesOf(xs, m) : \A j \in TargetEntriesOf(xs, m) : j <= i].ui

TargetDelta(msg, m) == TargetBalanceOf(msg.post, m) - TargetBalanceOf(msg.pre, m)

\* C21: infer returns Buy of a token M only if the target account's own balance of M
\* rose; a balance increase of another account mentioned in the transaction never
\* yields a Buy. (The claim asks for a rise above the dust threshold; a rise of any
\* size is stated here, which the claim implies, so that the boundary of C11 plays
\* no part.)
C21_BuyOnlyOnTargetBalance ==
  (Inferred /\ probe.first.tag = "Buy") =>
    TargetDelta(probe.msg, probe.first.output_mint) > 0

====
